---- MODULE Spec2Model ----
(***************************************************************************)
(* Model of the token-verified request gateway of the FastAPI backend:     *)
(*   - the Token Verifier   (SupabaseAuth in app/utils/supabase_utils.py)  *)
(*   - the Request Identity Gate (verify_token in app/main.py)             *)
(*   - the Credential Cache (get_supabase_client, get_s3_client,           *)
(*     get_supbase in app/utils/supabase_utils.py)                         *)
(* Time is counted in ticks of 1/TicksPerSec second, so that the whole-    *)
(* second comparison made by the JWT library and the sub-second comparison *)
(* made by is_token_expired can differ.                                    *)
(***************************************************************************)
EXTENDS Integers, Sequences, FiniteSets, TLC

VARIABLES
    clock,          \* wall clock, in ticks
    jwt_secret,     \* settings.supabase_jwt_secret
    supabase_url,   \* settings.supabase_url
    supabase_key,   \* settings.supabase_key
    authCall,       \* the last call made to the Token Verifier and its outcome
    req,            \* the requests: position in the dispatch, request state, response
    cache,          \* the lru_cache of each Credential Cache getter
    nextId,         \* identity of the next client object to be allocated
    stats,          \* per getter: calls, body executions, constructions, instances returned
    last,           \* the last getter call and its outcome
    deps,           \* the SupabaseDep objects built by get_supbase
    proc,           \* the process importing app.main: loading, running or crashed
    call            \* the last Data/Storage Access Layer call and its outcome

vars == <<clock, jwt_secret, supabase_url, supabase_key, authCall, req,
          cache, nextId, stats, last, deps, proc, call>>

authVars  == <<clock, jwt_secret, authCall>>
gateVars  == <<req>>
cacheVars == <<supabase_url, supabase_key, cache, nextId, stats, last, deps>>
restVars  == <<proc, call>>

-----------------------------------------------------------------------------
(* Bounds *)

TicksPerSec == 2
StartClock == 4
MaxClock == 7
MaxExp == 4
MaxDelay == 1
NumReqs == 2
MaxCalls == 4

-----------------------------------------------------------------------------
(* Values *)

NoExp == -1
NoClient == 0

Return(v) == [ok |-> TRUE, val |-> v, exc |-> "None"]

Raise(e, v) == [ok |-> FALSE, val |-> v, exc |-> e]

-----------------------------------------------------------------------------
(* Tokens: a bearer token is what the issuer signed.  wellformed is FALSE  *)
(* for a string that is not a three-part JWS; key is the secret the token  *)
(* was signed with; the other fields are its claims.                        *)

Malformed ==
    [wellformed |-> FALSE, key |-> "None", aud |-> "None", exp |-> NoExp,
     sub |-> "None", user_metadata |-> "None"]

Keys == {"k1", "k2"}

Secrets == {"", "k1"}

Auds == {"authenticated", "anon"}

Exps == {NoExp} \cup (0..MaxExp)

Subs == {"u1", "None"}

Metas == {"m1", "None"}

Tokens ==
    {Malformed} \cup
    [wellformed : {TRUE}, key : Keys, aud : Auds, exp : Exps,
     sub : Subs, user_metadata : Metas]

NoPayload == [exp |-> NoExp, sub |-> "None", user_metadata |-> "None"]

Payload(token) ==
    [exp |-> token.exp, sub |-> token.sub, user_metadata |-> token.user_metadata]

-----------------------------------------------------------------------------
(* Token Verifier *)

\* jose.jwt.decode(token, key, algorithms=["HS256"], audience="authenticated")
\* at whole second now_sec: structure, signature, exp (verified by default:
\* a token whose exp is before now raises ExpiredSignatureError) and aud.
\* Every failure is a JWTError or one of its subclasses.
jwt_decode(token, key, now_sec) ==
    IF ~token.wellformed THEN Raise("JWTError", NoPayload)
    ELSE IF token.key # key THEN Raise("JWTError", NoPayload)
    ELSE IF token.exp # NoExp /\ token.exp < now_sec THEN Raise("JWTError", NoPayload)
    ELSE IF token.aud # "authenticated" THEN Raise("JWTError", NoPayload)
    ELSE Return(Payload(token))

decode_supabase_token(token, secret, now) ==
    IF secret = "" THEN Raise("SupabaseAuthError", NoPayload)
    ELSE LET r == jwt_decode(token, secret, now \div TicksPerSec)
         IN  IF r.ok THEN r ELSE Raise("SupabaseAuthError", NoPayload)

\* now1 is the time of the decode, now2 >= now1 the time of datetime.now()
is_token_expired_missing_exp_true(token, secret, now1, now2) ==
    LET r == decode_supabase_token(token, secret, now1)
    IN  IF ~r.ok THEN FALSE
        ELSE IF r.val.exp # NoExp /\ r.val.exp # 0
             THEN r.val.exp * TicksPerSec < now2
             ELSE TRUE

is_token_expired(token, secret, now1, now2) ==
    LET r == decode_supabase_token(token, secret, now1)
    IN  IF ~r.ok THEN FALSE
        ELSE IF r.val.exp # NoExp /\ r.val.exp # 0
             THEN r.val.exp * TicksPerSec < now2
             ELSE FALSE

-----------------------------------------------------------------------------
(* Calls to the Token Verifier from any caller *)

NoAuthCall ==
    [op |-> "none", token |-> Malformed, at |-> 0, raised |-> "None",
     expired |-> FALSE, payload |-> NoPayload]

CallIsTokenExpired ==
    \E token \in Tokens, d \in 0..MaxDelay :
        /\ clock + d <= MaxClock
        /\ authCall' = [op |-> "is_token_expired", token |-> token, at |-> clock,
                        raised |-> "None",
                        expired |-> is_token_expired(token, jwt_secret, clock, clock + d),
                        payload |-> NoPayload]
        /\ clock' = clock + d
        /\ UNCHANGED <<jwt_secret, gateVars, cacheVars, restVars>>

CallDecode ==
    \E token \in Tokens :
        LET r == decode_supabase_token(token, jwt_secret, clock)
        IN  /\ authCall' = [op |-> "decode_supabase_token", token |-> token,
                            at |-> clock, raised |-> r.exc, expired |-> FALSE,
                            payload |-> r.val]
            /\ UNCHANGED <<clock, jwt_secret, gateVars, cacheVars, restVars>>

Tick ==
    /\ clock < MaxClock
    /\ clock' = clock + 1
    /\ UNCHANGED <<jwt_secret, authCall, gateVars, cacheVars, restVars>>

-----------------------------------------------------------------------------
(* Request Identity Gate *)

WHITE_LIST == {"/api/user/login", "/docs", "/openapi.json", "/api/health"}

Paths == {"/api/health", "/api/user/info"}

\* HTTPBearer(auto_error=False): the credential is None when the request has
\* no usable Authorization header
NoCred == [present |-> FALSE, credentials |-> Malformed]

Bearer(token) == [present |-> TRUE, credentials |-> token]

Tok(key, exp, sub, meta) ==
    [wellformed |-> TRUE, key |-> key, aud |-> "authenticated", exp |-> exp,
     sub |-> sub, user_metadata |-> meta]

PastExp == (StartClock \div TicksPerSec) - 1

SoonExp == StartClock \div TicksPerSec

FutureExp == (MaxClock \div TicksPerSec) + 1

Creds ==
    { NoCred,
      Bearer(Malformed),
      Bearer(Tok("k1", FutureExp, "u1", "m1")),
      Bearer(Tok("k1", NoExp, "u2", "None")),
      Bearer(Tok("k1", PastExp, "u1", "m1")),
      Bearer(Tok("k2", FutureExp, "u2", "m1")),
      Bearer(Tok("k1", SoonExp, "None", "None")) }

GateResult(outcome, status, calls, attach, payload) ==
    [outcome |-> outcome, status |-> status, calls |-> calls, attach |-> attach,
     user |-> payload.user_metadata, user_id |-> payload.sub]

\* verify_token without the `if not cred` test
verify_token_no_cred_test(path, cred, secret, now1, now2, now3) ==
    IF path \in WHITE_LIST THEN GateResult("return", 0, 0, FALSE, NoPayload)
    ELSE IF is_token_expired(cred.credentials, secret, now1, now2)
         THEN GateResult("HTTPException", 401, 1, FALSE, NoPayload)
    ELSE LET payload == decode_supabase_token(cred.credentials, secret, now3)
         IN  IF ~payload.ok
             THEN GateResult(payload.exc, 500, 2, FALSE, NoPayload)
             ELSE GateResult("return", 0, 2, TRUE, payload.val)

\* verify_token that looks at the credential before the allow-list
verify_token_cred_first(path, cred, secret, now1, now2, now3) ==
    IF ~cred.present THEN GateResult("HTTPException", 401, 0, FALSE, NoPayload)
    ELSE IF path \in WHITE_LIST THEN GateResult("return", 0, 0, FALSE, NoPayload)
    ELSE IF is_token_expired(cred.credentials, secret, now1, now2)
         THEN GateResult("HTTPException", 401, 1, FALSE, NoPayload)
    ELSE LET payload == decode_supabase_token(cred.credentials, secret, now3)
         IN  IF ~payload.ok
             THEN GateResult(payload.exc, 500, 2, FALSE, NoPayload)
             ELSE GateResult("return", 0, 2, TRUE, payload.val)

\* verify_token(req, cred): now1 and now2 are the two clock readings of
\* is_token_expired, now3 the one of the second decode.  An exception that is
\* not an HTTPException leaves the dependency unhandled: the server answers 500.
verify_token(path, cred, secret, now1, now2, now3) ==
    IF path \in WHITE_LIST THEN GateResult("return", 0, 0, FALSE, NoPayload)
    ELSE IF ~cred.present THEN GateResult("HTTPException", 401, 0, FALSE, NoPayload)
    ELSE IF is_token_expired(cred.credentials, secret, now1, now2)
         THEN GateResult("HTTPException", 401, 1, FALSE, NoPayload)
    ELSE LET payload == decode_supabase_token(cred.credentials, secret, now3)
         IN  IF ~payload.ok
             THEN GateResult(payload.exc, 500, 2, FALSE, NoPayload)
             ELSE GateResult("return", 0, 2, TRUE, payload.val)

-----------------------------------------------------------------------------
(* Requests *)

Reqs == 1..NumReqs

NoState == [set |-> FALSE, user |-> "None", user_id |-> "None", writes |-> 0]

NewReq ==
    [pc |-> "new", todo |-> <<>>, path |-> "None", cred |-> NoCred,
     status |-> 0, exc |-> "None", cause |-> "None", detail |-> "None",
     gate |-> "pending", gate_runs |-> 0,
     verifier_calls |-> 0,
     db |-> "none", handler_ran |-> FALSE, seen_user_id |-> "None",
     state |-> NoState, body_id |-> "None", creates |-> 0, created_id |-> "None"]

\* the dependencies of the route serving path, without the application's
RouteDeps(path) ==
    IF path \in {"/api/user/info", "/api/user/add_info"} THEN <<"get_db">> ELSE <<>>

\* dependencies solved with get_db ahead of the gate
DependantsRouteFirst(path) == RouteDeps(path) \o <<"verify_token">>

\* FastAPI(dependencies=[Depends(verify_token)]): the application's
\* dependencies are solved, in order, before the route's own
Dependants(path) == <<"verify_token">> \o RouteDeps(path)

\* identity kept in one place shared by all requests
SetStateShared(rq, r, user, user_id) ==
    [q \in Reqs |->
        [rq[q] EXCEPT !.state = [set |-> TRUE, user |-> user, user_id |-> user_id,
                                 writes |-> rq[q].state.writes + 1]]]

\* req.state.user = ...; req.state.user_id = ...  on the request's own state
SetState(rq, r, user, user_id) ==
    [rq EXCEPT ![r].state = [set |-> TRUE, user |-> user, user_id |-> user_id,
                             writes |-> rq[r].state.writes + 1]]

Advance(rq, r) ==
    LET rest == Tail(rq[r].todo)
    IN  [rq EXCEPT ![r].todo = rest,
                   ![r].pc = IF rest = <<>> THEN "endpoint" ELSE "deps"]

Arrive(r) ==
    /\ req[r].pc = "new"
    /\ r > 1 => req[r - 1].pc # "new"
    /\ \E path \in Paths, cred \in Creds :
          req' = [req EXCEPT ![r].pc = "deps", ![r].path = path, ![r].cred = cred,
                             ![r].todo = Dependants(path)]
    /\ UNCHANGED <<authVars, cacheVars, restVars>>

SolveVerifyToken(r) ==
    /\ req[r].pc = "deps"
    /\ Head(req[r].todo) = "verify_token"
    /\ \E d1 \in 0..MaxDelay, d2 \in 0..MaxDelay :
          /\ clock + d1 + d2 <= MaxClock
          /\ clock' = clock + d1 + d2
          /\ LET v == verify_token(req[r].path, req[r].cred, jwt_secret,
                                   clock, clock + d1, clock + d1 + d2)
                 ran == [req EXCEPT ![r].gate_runs = @ + 1,
                                    ![r].verifier_calls = @ + v.calls,
                                    ![r].gate = IF v.outcome = "return"
                                                THEN "accepted" ELSE "rejected"]
             IN  IF v.outcome = "return"
                 THEN req' = Advance(IF v.attach
                                     THEN SetState(ran, r, v.user, v.user_id)
                                     ELSE ran, r)
                 ELSE req' = [ran EXCEPT ![r].pc = "done", ![r].status = v.status,
                                         ![r].exc = v.outcome]
    /\ UNCHANGED <<jwt_secret, authCall, cacheVars, restVars>>

\* get_db: async with async_session() as s: yield s
SolveGetDb(r) ==
    /\ req[r].pc = "deps"
    /\ Head(req[r].todo) = "get_db"
    /\ req' = Advance([req EXCEPT ![r].db = "open"], r)
    /\ UNCHANGED <<authVars, cacheVars, restVars>>

\* str(e) of the exception e that the endpoint caught, as it is put in
\* HTTPException(500, f"Internal server error: {e!s}")
ErrorText(cause) ==
    IF cause = "None" THEN "None"
    ELSE IF cause = "SQLAlchemyError" THEN "connection to the database failed"
    ELSE "'State' object has no attribute 'user_id'"

\* the endpoint of /api/user/info; db_ok is whether svc.get_by_id succeeds.
\* Reading req.state.user_id when the gate attached nothing is an
\* AttributeError, caught by `except Exception`.
get_user_info(r) ==
    /\ req[r].pc = "endpoint"
    /\ req[r].path = "/api/user/info"
    /\ \E db_ok \in BOOLEAN :
          LET st == req[r].state
              status == IF ~st.set THEN 500
                        ELSE IF st.user_id = "None" THEN 401
                        ELSE IF db_ok THEN 200 ELSE 500
              cause == IF ~st.set THEN "AttributeError"
                       ELSE IF st.user_id # "None" /\ ~db_ok THEN "SQLAlchemyError"
                       ELSE "None"
          IN  req' = [req EXCEPT ![r].pc = "done", ![r].handler_ran = TRUE,
                                 ![r].cause = cause,
                                 ![r].detail = ErrorText(cause),
                                 ![r].seen_user_id = st.user_id,
                                 ![r].status = status,
                                 ![r].exc = IF status = 200 THEN "None" ELSE "HTTPException",
                                 ![r].db = IF @ = "open" THEN "closed" ELSE @]
    /\ UNCHANGED <<authVars, cacheVars, restVars>>

\* the ids a request body of POST /api/user/add_info carries
BodyIds == {"u1", "u9"}

\* the credentials sent with POST /api/user/add_info: none, a token of
\* subject u1, an expired one, one whose sub is empty, one without sub
PostCreds ==
    { NoCred,
      Bearer(Tok("k1", FutureExp, "u1", "m1")),
      Bearer(Tok("k1", PastExp, "u1", "m1")),
      Bearer(Tok("k1", FutureExp, "", "m1")),
      Bearer(Tok("k1", FutureExp, "None", "m1")) }

\* the parsed body, a UserProfile
UserProfile(id) == [id |-> id, name |-> "bob"]

ArrivePost(r) ==
    /\ req[r].pc = "new"
    /\ r > 1 => req[r - 1].pc # "new"
    /\ \E cred \in PostCreds, id \in BodyIds :
          req' = [req EXCEPT ![r].pc = "deps", ![r].path = "/api/user/add_info",
                             ![r].cred = cred, ![r].body_id = id,
                             ![r].todo = Dependants("/api/user/add_info")]
    /\ UNCHANGED <<authVars, cacheVars, restVars>>

\* `not user_id` of a str or None
NotUserId(user_id) == user_id = "None" \/ user_id = ""

\* UserService.create_user_profile: the row is built from data.model_dump();
\* flush or commit may fail
create_user_profile(data, db_ok) ==
    [called |-> TRUE, row |-> [id |-> data.id, name |-> data.name], ok |-> db_ok]

NotCreated == [called |-> FALSE, row |-> UserProfile("None"), ok |-> FALSE]

\* the handler creates the profile under the id of the request body
add_user_info_body_id(r) ==
    /\ req[r].pc = "endpoint"
    /\ req[r].path = "/api/user/add_info"
    /\ \E db_ok \in BOOLEAN :
          LET st == req[r].state
              user_data == UserProfile(req[r].body_id)
              reached == st.set /\ ~NotUserId(st.user_id)
              new_user == IF reached THEN create_user_profile(user_data, db_ok)
                          ELSE NotCreated
              status == IF ~st.set THEN 500
                        ELSE IF NotUserId(st.user_id) THEN 401
                        ELSE IF new_user.ok THEN 200 ELSE 500
              cause == IF ~st.set THEN "AttributeError"
                       ELSE IF reached /\ ~new_user.ok THEN "SQLAlchemyError"
                       ELSE "None"
          IN  req' = [req EXCEPT ![r].pc = "done", ![r].handler_ran = TRUE,
                                 ![r].cause = cause,
                                 ![r].detail = ErrorText(cause),
                                 ![r].seen_user_id = st.user_id,
                                 ![r].status = status,
                                 ![r].exc = IF status = 200 THEN "None" ELSE "HTTPException",
                                 ![r].creates = IF new_user.called THEN @ + 1 ELSE @,
                                 ![r].created_id = IF new_user.called THEN new_user.row.id ELSE @,
                                 ![r].db = IF @ = "open" THEN "closed" ELSE @]
    /\ UNCHANGED <<authVars, cacheVars, restVars>>

\* the endpoint of /api/user/add_info; db_ok is whether flush and commit succeed
add_user_info(r) ==
    /\ req[r].pc = "endpoint"
    /\ req[r].path = "/api/user/add_info"
    /\ \E db_ok \in BOOLEAN :
          LET st == req[r].state
              reached == st.set /\ ~NotUserId(st.user_id)
              user_data == [UserProfile(req[r].body_id) EXCEPT !.id = st.user_id]
              new_user == IF reached THEN create_user_profile(user_data, db_ok)
                          ELSE NotCreated
              status == IF ~st.set THEN 500
                        ELSE IF NotUserId(st.user_id) THEN 401
                        ELSE IF new_user.ok THEN 200 ELSE 500
              cause == IF ~st.set THEN "AttributeError"
                       ELSE IF reached /\ ~new_user.ok THEN "SQLAlchemyError"
                       ELSE "None"
          IN  req' = [req EXCEPT ![r].pc = "done", ![r].handler_ran = TRUE,
                                 ![r].cause = cause,
                                 ![r].detail = ErrorText(cause),
                                 ![r].seen_user_id = st.user_id,
                                 ![r].status = status,
                                 ![r].exc = IF status = 200 THEN "None" ELSE "HTTPException",
                                 ![r].creates = IF new_user.called THEN @ + 1 ELSE @,
                                 ![r].created_id = IF new_user.called THEN new_user.row.id ELSE @,
                                 ![r].db = IF @ = "open" THEN "closed" ELSE @]
    /\ UNCHANGED <<authVars, cacheVars, restVars>>

-----------------------------------------------------------------------------
(* Credential Cache *)

Getters == {"get_supabase_client", "get_s3_client"}

Urls == {"", "not-a-url", "https://proj.supabase.co"}

ApiKeys == {"", "anon-key"}

ValidUrl(url) == url = "https://proj.supabase.co"

\* supabase.create_client(url, key, options): a new Client, or an exception
\* of the SDK when the URL is not an http(s) URL
create_client(url, key, id) ==
    IF ValidUrl(url) /\ key # "" THEN Return(id)
    ELSE Raise("SupabaseException", NoClient)

\* boto3.client("s3", endpoint_url=f"{url}/storage/v1/s3", aws_access_key_id=key,
\* aws_secret_access_key=key, ...): a new client whatever the key is, or
\* ValueError("Invalid endpoint") when the endpoint is not a URL
boto3_client(url, key, id) ==
    IF ValidUrl(url) THEN Return(id)
    ELSE Raise("ValueError", NoClient)

\* the body of get_supabase_client; SupabaseError is the configuration error
supabase_client_body(url, key, id) ==
    IF url = "" \/ key = "" THEN Raise("SupabaseError", NoClient)
    ELSE LET c == create_client(url, key, id)
         IN  IF c.ok THEN c ELSE Raise("SupabaseError", NoClient)

\* the body of get_s3_client
s3_client_body(url, key, id) == boto3_client(url, key, id)

Body(g, url, key, id) ==
    IF g = "get_supabase_client" THEN supabase_client_body(url, key, id)
    ELSE s3_client_body(url, key, id)

\* a getter that is not memoized
lru_cache_miss(g) == NoClient

\* @lru_cache on a function without arguments: the value stored by the first
\* call that returned; an exception stores nothing
lru_cache_get(g) == cache[g]

\* one call of getter g: the cached instance, or the body's outcome
Getter(g) ==
    LET hit == lru_cache_get(g)
        ran == hit = NoClient
        res == IF ran THEN Body(g, supabase_url, supabase_key, nextId) ELSE Return(hit)
    IN  [res |-> res, ran_body |-> ran, before |-> cache[g]]

NoStats == [calls |-> 0, attempts |-> 0, built |-> 0, returned |-> {}]

NoCall ==
    [op |-> "none", getter |-> "none", before |-> NoClient, ran_body |-> FALSE,
     ok |-> FALSE, exc |-> "None", ret |-> NoClient]

TotalCalls == stats["get_supabase_client"].calls + stats["get_s3_client"].calls

\* the effect of one call of getter g, made by operation op, on the cache
Record(op, g, c) ==
    /\ cache' = IF c.ran_body /\ c.res.ok THEN [cache EXCEPT ![g] = c.res.val] ELSE cache
    /\ nextId' = IF c.ran_body /\ c.res.ok THEN nextId + 1 ELSE nextId
    /\ stats' = [stats EXCEPT
                    ![g].calls = @ + 1,
                    ![g].attempts = IF c.ran_body THEN @ + 1 ELSE @,
                    ![g].built = IF c.ran_body /\ c.res.ok THEN @ + 1 ELSE @,
                    ![g].returned = IF c.res.ok THEN @ \cup {c.res.val} ELSE @]
    /\ last' = [op |-> op, getter |-> g, before |-> c.before, ran_body |-> c.ran_body,
                ok |-> c.res.ok, exc |-> c.res.exc, ret |-> c.res.val]

CallGetter(g) ==
    /\ TotalCalls < MaxCalls
    /\ Record(g, g, Getter(g))
    /\ UNCHANGED <<supabase_url, supabase_key, deps, authVars, gateVars, restVars>>

\* get_supbase(): one call of get_supabase_client, whose result is given to
\* the three helpers and kept as client
get_supbase ==
    /\ TotalCalls < MaxCalls
    /\ LET c == Getter("get_supabase_client")
       IN  /\ Record("get_supbase", "get_supabase_client", c)
           /\ deps' = IF c.res.ok
                      THEN deps \cup {[auth |-> c.res.val, client |-> c.res.val,
                                       db |-> c.res.val, storage |-> c.res.val]}
                      ELSE deps
    /\ UNCHANGED <<supabase_url, supabase_key, authVars, gateVars, restVars>>

-----------------------------------------------------------------------------
(* Process start *)

\* import of app.main: the module-level `supabase = get_supbase()` runs before
\* `app = FastAPI(...)`; an exception there aborts the import and no app exists
import_main ==
    /\ proc = "loading"
    /\ LET c == Getter("get_supabase_client")
       IN  /\ Record("get_supbase", "get_supabase_client", c)
           /\ deps' = IF c.res.ok
                      THEN deps \cup {[auth |-> c.res.val, client |-> c.res.val,
                                       db |-> c.res.val, storage |-> c.res.val]}
                      ELSE deps
           /\ proc' = IF c.res.ok THEN "running" ELSE "crashed"
    /\ UNCHANGED <<supabase_url, supabase_key, authVars, gateVars, call>>

-----------------------------------------------------------------------------
(* Data Access Layer and Storage Access Layer *)

MaxLimit == 2
MaxOffset == 5
MaxRows == 2
MaxBatch == 2
MaxNameLen == 4

NoneInt == -1
DefaultPageSize == 10

\* an optional int argument: None or 0..max
IntArgs(max) == {NoneInt} \cup (0..max)

Tables == {"users", "user_profile"}

\* a filters dict, as the sequence of its items in iteration order
Item(k, v) == [k |-> k, v |-> v]

FilterVals == {"42", "bob"}

FilterItems ==
    {<<>>} \cup
    {<<Item("id", v)>> : v \in FilterVals} \cup
    {<<Item("name", v)>> : v \in FilterVals} \cup
    {<<Item("id", v), Item("name", w)>> : v, w \in FilterVals} \cup
    {<<Item("name", v), Item("id", w)>> : v, w \in FilterVals}

\* the filters argument of select: None or a dict
NoFilters == [given |-> FALSE, items |-> <<>>]

FilterArgs == {NoFilters} \cup {[given |-> TRUE, items |-> f] : f \in FilterItems}

OrderArgs == {"None", "name"}

\* what the backend does with the one request of a call: it answers with the
\* rows it has (avail of them match), reports an API error, or the transport
\* fails with some other exception
Backends == [outcome : {"ok", "APIError", "Exception"}, avail : 0..MaxRows]

\* the calls made on the query builder, in order
Q(m, k, v, lo, hi) == [m |-> m, k |-> k, v |-> v, lo |-> lo, hi |-> hi]

Q_select(columns) == Q("select", columns, "", 0, 0)

Q_eq(key, value) == Q("eq", key, value, 0, 0)

Q_order(column) == Q("order", column, "", 0, 0)

Q_limit(n) == Q("limit", "", "", n, 0)

Q_range(lo, hi) == Q("range", "", "", lo, hi)

Q_insert(n) == Q("insert", "", "", n, 0)

Q_update == Q("update", "", "", 0, 0)

Q_delete == Q("delete", "", "", 0, 0)

Q_upsert(n, on_conflict) == Q("upsert", on_conflict, "", n, 0)

\* only the first entry of the mapping becomes a predicate
EqsFirstOnly(items) ==
    IF items = <<>> THEN <<>> ELSE <<Q_eq(items[1].k, items[1].v)>>

\* for key, value in filters.items(): query = query.eq(key, value)
Eqs(items) == [i \in 1..Len(items) |-> Q_eq(items[i].k, items[i].v)]

Truthy(n) == n # NoneInt /\ n # 0

\* the query select builds before it executes it
select_query(columns, filters, order_by, limit, offset) ==
    LET q0 == <<Q_select(columns)>>
        q1 == IF filters.given /\ filters.items # <<>>
              THEN q0 \o Eqs(filters.items) ELSE q0
        q2 == IF order_by # "None" THEN Append(q1, Q_order(order_by)) ELSE q1
        q3 == IF Truthy(limit) THEN Append(q2, Q_limit(limit)) ELSE q2
        size == IF Truthy(limit) THEN limit ELSE DefaultPageSize
    IN  IF Truthy(offset)
        THEN Append(q3, Q_range(offset, offset + size - 1))
        ELSE q3

\* the rows the backend returns to a query when avail rows match
Rows(query, avail) ==
    LET lims == {i \in 1..Len(query) : query[i].m = "limit"}
    IN  IF lims = {} THEN avail
        ELSE LET n == query[CHOOSE i \in lims : TRUE].lo
             IN  IF avail < n THEN avail ELSE n

\* an unexpected exception is not translated
db_error_api_only(verb, table, outcome) ==
    IF outcome = "APIError"
    THEN [exc |-> "SupabaseDBError", msg |-> verb, msg_table |-> table]
    ELSE [exc |-> outcome, msg |-> "None", msg_table |-> "None"]

\* except APIError: raise SupabaseDBError(f"Failed to <verb> {table}")
\* except Exception: raise SupabaseDBError("Unexpected error")
db_error(verb, table, outcome) ==
    IF outcome = "APIError"
    THEN [exc |-> "SupabaseDBError", msg |-> verb, msg_table |-> table]
    ELSE [exc |-> "SupabaseDBError", msg |-> "Unexpected error", msg_table |-> "None"]

NoArgs ==
    [filters |-> NoFilters, limit |-> NoneInt, offset |-> NoneInt, batch |-> NoneInt,
     user_id |-> "None", options |-> FALSE, option_limit |-> NoneInt,
     option_offset |-> NoneInt]

NoLayerCall ==
    [op |-> "none", table |-> "None", args |-> NoArgs, query |-> <<>>,
     requests |-> 0, backend |-> "None", ok |-> FALSE, exc |-> "None",
     msg |-> "None", msg_table |-> "None", rows |-> 0, result |-> FALSE,
     original |-> <<>>, filename |-> <<>>]

\* a failed execute() is tried a second time
ExecutedWithRetry(op, verb, table, args, query, backend) ==
    LET e == db_error(verb, table, backend.outcome)
    IN  IF backend.outcome = "ok"
        THEN [NoLayerCall EXCEPT !.op = op, !.table = table, !.args = args,
                                 !.query = query, !.requests = 1, !.backend = "ok",
                                 !.ok = TRUE, !.rows = Rows(query, backend.avail)]
        ELSE [NoLayerCall EXCEPT !.op = op, !.table = table, !.args = args,
                                 !.query = query, !.requests = 2,
                                 !.backend = backend.outcome,
                                 !.exc = e.exc, !.msg = e.msg, !.msg_table = e.msg_table]

\* the outcome of a Data Access Layer operation that built query and
\* executed it once, with the backend answering as backend does
Executed(op, verb, table, args, query, backend) ==
    LET e == db_error(verb, table, backend.outcome)
    IN  IF backend.outcome = "ok"
        THEN [NoLayerCall EXCEPT !.op = op, !.table = table, !.args = args,
                                 !.query = query, !.requests = 1, !.backend = "ok",
                                 !.ok = TRUE, !.rows = Rows(query, backend.avail)]
        ELSE [NoLayerCall EXCEPT !.op = op, !.table = table, !.args = args,
                                 !.query = query, !.requests = 1,
                                 !.backend = backend.outcome,
                                 !.exc = e.exc, !.msg = e.msg, !.msg_table = e.msg_table]

\* SupabaseDB.select
select(table, columns, filters, order_by, limit, offset, backend) ==
    Executed("select", "Failed to select from", table,
             [NoArgs EXCEPT !.filters = filters, !.limit = limit, !.offset = offset],
             select_query(columns, filters, order_by, limit, offset), backend)

\* the layer is called by one caller, one call at a time
Idle == call.op = "none"

\* the caller has taken the outcome of its call
Returned ==
    /\ ~Idle
    /\ call' = NoLayerCall
    /\ UNCHANGED <<authVars, gateVars, cacheVars, proc>>

Select ==
    /\ Idle
    /\ \E table \in Tables, filters \in FilterArgs, order_by \in OrderArgs,
          limit \in IntArgs(MaxLimit), offset \in IntArgs(MaxOffset),
          backend \in Backends :
          call' = select(table, "*", filters, order_by, limit, offset, backend)
    /\ UNCHANGED <<authVars, gateVars, cacheVars, proc>>

\* the outcome of a Data Access Layer operation whose try block raised cause
\* before it reached execute()
NotExecuted(op, verb, table, args, query, cause) ==
    LET e == db_error(verb, table, cause)
    IN  [NoLayerCall EXCEPT !.op = op, !.table = table, !.args = args,
                            !.query = query, !.requests = 0, !.backend = cause,
                            !.exc = e.exc, !.msg = e.msg, !.msg_table = e.msg_table]

\* the data argument of insert and upsert: one mapping (None) or a list of
\* batch mappings
BatchArgs == {NoneInt} \cup (1..MaxBatch)

\* SupabaseDB.insert; chain_ok is whether the builder returned by insert()
\* has the select() method the code calls on it (the call is marked
\* attr-defined), otherwise the chain raises AttributeError
insert(table, batch, return_columns, chain_ok, backend) ==
    LET args == [NoArgs EXCEPT !.batch = batch]
    IN  IF chain_ok
        THEN Executed("insert", "Failed to insert to", table, args,
                      <<Q_insert(batch), Q_select(return_columns)>>, backend)
        ELSE NotExecuted("insert", "Failed to insert to", table, args,
                         <<Q_insert(batch)>>, "AttributeError")

\* SupabaseDB.update
update(table, filters, return_columns, chain_ok, backend) ==
    LET args == [NoArgs EXCEPT !.filters = filters]
    IN  IF chain_ok
        THEN Executed("update", "Failed to update", table, args,
                      <<Q_update, Q_select(return_columns)>> \o Eqs(filters.items),
                      backend)
        ELSE NotExecuted("update", "Failed to update", table, args,
                         <<Q_update>>, "AttributeError")

\* SupabaseDB.delete: True when execute() returned
delete(table, filters, backend) ==
    LET r == Executed("delete", "Failed to delete from", table,
                      [NoArgs EXCEPT !.filters = filters],
                      <<Q_delete>> \o Eqs(filters.items), backend)
    IN  [r EXCEPT !.result = r.ok, !.rows = 0]

\* SupabaseDB.upsert
upsert(table, batch, on_conflict, return_columns, chain_ok, backend) ==
    LET args == [NoArgs EXCEPT !.batch = batch]
    IN  IF chain_ok
        THEN Executed("upsert", "Failed to upsert to", table, args,
                      <<Q_upsert(batch, on_conflict), Q_select(return_columns)>>,
                      backend)
        ELSE NotExecuted("upsert", "Failed to upsert to", table, args,
                         <<Q_upsert(batch, on_conflict)>>, "AttributeError")

\* check_user_exists without its try/except
check_user_exists_no_except(user_id, backend) ==
    LET r == select("users", "*", [given |-> TRUE, items |-> <<Item("id", user_id)>>],
                    "None", 1, NoneInt, backend)
    IN  [r EXCEPT !.op = "check_user_exists", !.args.user_id = user_id,
                  !.result = r.ok /\ r.rows > 0]

\* SupabaseDB.check_user_exists
check_user_exists(user_id, backend) ==
    LET r == select("users", "*", [given |-> TRUE, items |-> <<Item("id", user_id)>>],
                    "None", 1, NoneInt, backend)
        c == [r EXCEPT !.op = "check_user_exists", !.args.user_id = user_id]
    IN  IF r.ok THEN [c EXCEPT !.result = r.rows > 0]
        ELSE IF r.exc = "SupabaseDBError"
             THEN [c EXCEPT !.ok = TRUE, !.exc = "None", !.msg = "None",
                            !.msg_table = "None", !.result = FALSE]
             ELSE c

DictArgs == {f \in FilterArgs : f.given}

Insert ==
    /\ Idle
    /\ \E table \in Tables, batch \in BatchArgs, chain_ok \in BOOLEAN,
          backend \in Backends :
          call' = insert(table, batch, "*", chain_ok, backend)
    /\ UNCHANGED <<authVars, gateVars, cacheVars, proc>>

Update ==
    /\ Idle
    /\ \E table \in Tables, filters \in DictArgs, chain_ok \in BOOLEAN,
          backend \in Backends :
          call' = update(table, filters, "*", chain_ok, backend)
    /\ UNCHANGED <<authVars, gateVars, cacheVars, proc>>

Delete ==
    /\ Idle
    /\ \E table \in Tables, filters \in DictArgs, backend \in Backends :
          call' = delete(table, filters, backend)
    /\ UNCHANGED <<authVars, gateVars, cacheVars, proc>>

Upsert ==
    /\ Idle
    /\ \E table \in Tables, batch \in BatchArgs, on_conflict \in {"None", "id"},
          chain_ok \in BOOLEAN, backend \in Backends :
          call' = upsert(table, batch, on_conflict, "*", chain_ok, backend)
    /\ UNCHANGED <<authVars, gateVars, cacheVars, proc>>

CheckUserExists ==
    /\ Idle
    /\ \E user_id \in FilterVals, backend \in Backends :
          call' = check_user_exists(user_id, backend)
    /\ UNCHANGED <<authVars, gateVars, cacheVars, proc>>

-----------------------------------------------------------------------------
(* Storage Access Layer *)

Buckets == {"images"}

\* what the storage backend does with the one request of a call
StorageBackends == [outcome : {"ok", "StorageException", "Exception"}, avail : 0..MaxRows]

\* except Exception: raise SupabaseStorageError(msg)
storage_error(msg, outcome) ==
    [exc |-> "SupabaseStorageError", msg |-> msg, msg_table |-> "None"]

\* the outcome of a Storage Access Layer operation that made requests
\* requests (0 or 1) and either returned or raised cause
Stored(op, msg, bucket, args, requests, cause, rows) ==
    LET e == storage_error(msg, cause)
    IN  IF cause = "ok"
        THEN [NoLayerCall EXCEPT !.op = op, !.table = bucket, !.args = args,
                                 !.requests = requests, !.backend = "ok",
                                 !.ok = TRUE, !.rows = rows]
        ELSE [NoLayerCall EXCEPT !.op = op, !.table = bucket, !.args = args,
                                 !.requests = requests, !.backend = cause,
                                 !.exc = e.exc, !.msg = e.msg, !.msg_table = e.msg_table]

\* SupabaseStorage.upload_file
upload_file(bucket, backend) ==
    Stored("upload_file", "Failed to upload file", bucket, NoArgs, 1, backend.outcome, 0)

\* SupabaseStorage.download_file
download_file(bucket, backend) ==
    Stored("download_file", "Failed to download file", bucket, NoArgs, 1,
           backend.outcome, 0)

\* SupabaseStorage.get_public_url: the URL is built locally, without a request
get_public_url(bucket, outcome) ==
    Stored("get_public_url", "Failed to get public URL", bucket, NoArgs, 0, outcome, 0)

\* SupabaseStorage.delete_file: True when remove([path]) returned
delete_file(bucket, backend) ==
    LET r == Stored("delete_file", "Failed to delete file", bucket, NoArgs, 1,
                    backend.outcome, 0)
    IN  [r EXCEPT !.result = r.ok]

\* SupabaseStorage.list_files: options holds limit and offset when they are
\* truthy, and None is passed instead of an empty options dict; the backend
\* returns at most limit entries when a limit is sent
list_files(bucket, limit, offset, backend) ==
    LET option_limit == IF Truthy(limit) THEN limit ELSE NoneInt
        option_offset == IF Truthy(offset) THEN offset ELSE NoneInt
        args == [NoArgs EXCEPT !.limit = limit, !.offset = offset,
                               !.options = option_limit # NoneInt \/ option_offset # NoneInt,
                               !.option_limit = option_limit,
                               !.option_offset = option_offset]
        rows == IF option_limit # NoneInt /\ option_limit < backend.avail
                THEN option_limit ELSE backend.avail
    IN  Stored("list_files", "Failed to list files", bucket, args, 1,
               backend.outcome, rows)

\* SupabaseStorage.upload_file_to_s3, given the outcome c of its call of
\* get_s3_client: put_object is called once when the client is there
upload_file_to_s3(bucket, c, backend) ==
    IF c.res.ok
    THEN Stored("upload_file_to_s3", "Failed to upload file to S3", bucket, NoArgs, 1,
                backend.outcome, 0)
    ELSE Stored("upload_file_to_s3", "Failed to upload file to S3", bucket, NoArgs, 0,
                c.res.exc, 0)

UploadFile ==
    /\ Idle
    /\ \E bucket \in Buckets, backend \in StorageBackends :
          call' = upload_file(bucket, backend)
    /\ UNCHANGED <<authVars, gateVars, cacheVars, proc>>

DownloadFile ==
    /\ Idle
    /\ \E bucket \in Buckets, backend \in StorageBackends :
          call' = download_file(bucket, backend)
    /\ UNCHANGED <<authVars, gateVars, cacheVars, proc>>

GetPublicUrl ==
    /\ Idle
    /\ \E bucket \in Buckets, outcome \in {"ok", "Exception"} :
          call' = get_public_url(bucket, outcome)
    /\ UNCHANGED <<authVars, gateVars, cacheVars, proc>>

DeleteFile ==
    /\ Idle
    /\ \E bucket \in Buckets, backend \in StorageBackends :
          call' = delete_file(bucket, backend)
    /\ UNCHANGED <<authVars, gateVars, cacheVars, proc>>

ListFiles ==
    /\ Idle
    /\ \E bucket \in Buckets, limit \in IntArgs(MaxLimit), offset \in IntArgs(MaxOffset),
          backend \in StorageBackends :
          call' = list_files(bucket, limit, offset, backend)
    /\ UNCHANGED <<authVars, gateVars, cacheVars, proc>>

UploadFileToS3 ==
    /\ Idle
    /\ TotalCalls < MaxCalls
    /\ \E bucket \in Buckets, backend \in StorageBackends :
          LET c == Getter("get_s3_client")
          IN  /\ Record("upload_file_to_s3", "get_s3_client", c)
              /\ call' = upload_file_to_s3(bucket, c, backend)
    /\ UNCHANGED <<supabase_url, supabase_key, deps, authVars, gateVars, proc>>

-----------------------------------------------------------------------------
(* generate_filename: strings are sequences of one-character strings *)

Chars == {"r", ".", "/"}

\* the file names a caller passes
Names == UNION {[1..n -> Chars] : n \in 0..MaxNameLen}

Digits == <<"0", "1", "2", "3", "4", "5", "6", "7", "8", "9">>

\* n as w decimal digits, padded with zeros on the left (%Y, %m, %d, %H, %M, %S)
RECURSIVE Padded(_, _)
Padded(n, w) ==
    IF w = 0 THEN <<>> ELSE Append(Padded(n \div 10, w - 1), Digits[(n % 10) + 1])

\* what datetime.now() returns
Datetimes ==
    { [year |-> 2024, month |-> 1, day |-> 5, hour |-> 9, minute |-> 3, second |-> 7],
      [year |-> 2026, month |-> 11, day |-> 30, hour |-> 23, minute |-> 59, second |-> 58] }

\* now.strftime("%Y%m%d_%H%M%S")
strftime(now) ==
    Padded(now.year, 4) \o Padded(now.month, 2) \o Padded(now.day, 2) \o <<"_">>
    \o Padded(now.hour, 2) \o Padded(now.minute, 2) \o Padded(now.second, 2)

\* the random hex digits a uuid4 is made of, repeated to fill it
Seeds == { <<"3", "f", "a", "0">>, <<"c", "9", "e", "7", "1">> }

\* str(uuid.uuid4()): 36 characters, 8-4-4-4-12 lower-case hex digits with
\* the version digit 4 and a variant digit
uuid4_str(seed) ==
    [i \in 1..36 |-> IF i \in {9, 14, 19, 24} THEN "-"
                     ELSE IF i = 15 THEN "4"
                     ELSE IF i = 20 THEN "a"
                     ELSE seed[((i - 1) % Len(seed)) + 1]]

\* the pieces of a path between its slashes
RECURSIVE Split(_)
Split(s) ==
    IF \A i \in 1..Len(s) : s[i] # "/" THEN <<s>>
    ELSE LET i == CHOOSE k \in 1..Len(s) :
                      s[k] = "/" /\ \A j \in 1..(k - 1) : s[j] # "/"
         IN  <<SubSeq(s, 1, i - 1)>> \o Split(SubSeq(s, i + 1, Len(s)))

NotEmptyNorDot(c) == Len(c) > 0 /\ ~(Len(c) = 1 /\ c[1] = ".")

\* PurePath.parts without the root: empty components and "." are dropped
parts(s) == SelectSeq(Split(s), NotEmptyNorDot)

\* PurePath.name: the final component, "" when there is none
name(s) == LET p == parts(s) IN IF Len(p) = 0 THEN <<>> ELSE p[Len(p)]

\* str.rfind("."), counted from 1; 0 when there is no dot
rfind_dot(n) ==
    IF \A i \in 1..Len(n) : n[i] # "." THEN 0
    ELSE CHOOSE i \in 1..Len(n) : n[i] = "." /\ \A j \in (i + 1)..Len(n) : n[j] # "."

\* PurePath.suffix: the text from the last dot of the name, when that dot is
\* neither its first nor its last character
suffix(s) ==
    LET n == name(s)
        i == rfind_dot(n)
    IN  IF 1 < i /\ i < Len(n) THEN SubSeq(n, i, Len(n)) ELSE <<>>

\* the extension is cut at the last dot of the whole path, directories included
generate_filename_whole_path(original_filename, now, seed) ==
    LET timestamp == strftime(now)
        unique_id == SubSeq(uuid4_str(seed), 1, 8)
        i == rfind_dot(original_filename)
        file_extension == IF 1 < i /\ i < Len(original_filename)
                          THEN SubSeq(original_filename, i, Len(original_filename))
                          ELSE <<>>
    IN  timestamp \o <<"_">> \o unique_id \o file_extension

generate_filename(original_filename, now, seed) ==
    LET timestamp == strftime(now)
        unique_id == SubSeq(uuid4_str(seed), 1, 8)
        file_extension == suffix(original_filename)
    IN  timestamp \o <<"_">> \o unique_id \o file_extension

GenerateFilename ==
    /\ Idle
    /\ \E original_filename \in Names, now \in Datetimes, seed \in Seeds :
          call' = [NoLayerCall EXCEPT
                      !.op = "generate_filename", !.ok = TRUE,
                      !.original = original_filename,
                      !.filename = generate_filename(original_filename, now, seed)]
    /\ UNCHANGED <<authVars, gateVars, cacheVars, proc>>

-----------------------------------------------------------------------------
(* Specifications *)

\* a process that has imported app.utils.supabase_utils and called nothing
CacheIdle ==
    /\ cache = [g \in Getters |-> NoClient]
    /\ nextId = 1
    /\ stats = [g \in Getters |-> NoStats]
    /\ last = NoCall
    /\ deps = {}
    /\ proc = "loading"

\* app.main imported: `supabase = get_supbase()` has returned
AppImported ==
    /\ supabase_url = "https://proj.supabase.co"
    /\ supabase_key = "anon-key"
    /\ cache = [g \in Getters |-> IF g = "get_supabase_client" THEN 1 ELSE NoClient]
    /\ nextId = 2
    /\ stats = [g \in Getters |->
                  IF g = "get_supabase_client"
                  THEN [calls |-> 1, attempts |-> 1, built |-> 1, returned |-> {1}]
                  ELSE NoStats]
    /\ last = [op |-> "get_supbase", getter |-> "get_supabase_client",
               before |-> NoClient, ran_body |-> TRUE, ok |-> TRUE, exc |-> "None",
               ret |-> 1]
    /\ deps = {[auth |-> 1, client |-> 1, db |-> 1, storage |-> 1]}
    /\ proc = "running"

NoRequests == req = [r \in Reqs |-> NewReq]

\* The Token Verifier called directly with any token
AuthInit ==
    /\ clock = StartClock
    /\ jwt_secret \in Secrets
    /\ authCall = NoAuthCall
    /\ NoRequests
    /\ call = NoLayerCall
    /\ AppImported

AuthNext == CallIsTokenExpired \/ CallDecode \/ Tick

SpecAuth == AuthInit /\ [][AuthNext]_vars

\* The running application serving requests
GateInit ==
    /\ clock = StartClock
    /\ jwt_secret \in Secrets
    /\ authCall = NoAuthCall
    /\ NoRequests
    /\ call = NoLayerCall
    /\ AppImported

GateNext ==
    \/ \E r \in Reqs : Arrive(r)
    \/ \E r \in Reqs : SolveVerifyToken(r)
    \/ \E r \in Reqs : SolveGetDb(r)
    \/ \E r \in Reqs : get_user_info(r)
    \/ Tick

SpecGate == GateInit /\ [][GateNext]_vars

\* The running application serving POST /api/user/add_info
ProfileNext ==
    \/ \E r \in Reqs : ArrivePost(r)
    \/ \E r \in Reqs : SolveVerifyToken(r)
    \/ \E r \in Reqs : SolveGetDb(r)
    \/ \E r \in Reqs : add_user_info(r)
    \/ Tick

SpecProfile == GateInit /\ [][ProfileNext]_vars

\* A process calling the Credential Cache getters under any configuration
CacheInit ==
    /\ clock = StartClock
    /\ jwt_secret = "k1"
    /\ authCall = NoAuthCall
    /\ NoRequests
    /\ call = NoLayerCall
    /\ supabase_url \in Urls
    /\ supabase_key \in ApiKeys
    /\ CacheIdle

CacheNext ==
    \/ \E g \in Getters : CallGetter(g)
    \/ get_supbase
    \/ import_main

SpecCache == CacheInit /\ [][CacheNext]_vars

\* A process calling the Data Access Layer and the Storage Access Layer
LayerInit ==
    /\ clock = StartClock
    /\ jwt_secret = "k1"
    /\ authCall = NoAuthCall
    /\ NoRequests
    /\ call = NoLayerCall
    /\ supabase_url \in Urls
    /\ supabase_key \in ApiKeys
    /\ CacheIdle

LayerNext ==
    \/ UploadFileToS3
    \/ Returned
    \/ Select
    \/ Insert
    \/ Update
    \/ Delete
    \/ Upsert
    \/ CheckUserExists
    \/ UploadFile
    \/ DownloadFile
    \/ GetPublicUrl
    \/ DeleteFile
    \/ ListFiles
    \/ GenerateFilename

SpecLayer == LayerInit /\ [][LayerNext]_vars

-----------------------------------------------------------------------------
(* Properties of the Token Verifier (SpecAuth) *)

CorrectlySigned(token) ==
    /\ jwt_secret # ""
    /\ token.wellformed
    /\ token.key = jwt_secret
    /\ token.aud = "authenticated"

Unverifiable(token) ==
    /\ jwt_secret # ""
    /\ ~token.wellformed \/ token.key # jwt_secret

ExpiredAt(token, now) == token.exp # NoExp /\ token.exp * TicksPerSec < now

\* C1: for every token that is correctly signed with the configured secret,
\* carries the expected audience and has its expiry in the past,
\* is_token_expired returns true.
C1_ExpiredTokenIsExpired ==
    ( /\ authCall.op = "is_token_expired"
      /\ CorrectlySigned(authCall.token)
      /\ ExpiredAt(authCall.token, authCall.at) )
    => authCall.expired

\* C2: for every malformed or wrongly-signed token, decode_supabase_token
\* fails with the authentication error and is_token_expired returns true
\* (a token that cannot be verified is never reported as not expired).
C2_UnverifiableFailsClosed ==
    Unverifiable(authCall.token) =>
        /\ authCall.op = "decode_supabase_token" => authCall.raised = "SupabaseAuthError"
        /\ authCall.op = "is_token_expired" => authCall.expired

-----------------------------------------------------------------------------
(* Properties of the Request Identity Gate (SpecGate) *)

Protected(r) == req[r].path \notin WHITE_LIST

GateRan(r) == req[r].gate_runs > 0

Rejected401(r) ==
    /\ req[r].pc = "done"
    /\ req[r].gate = "rejected"
    /\ req[r].status = 401
    /\ req[r].exc = "HTTPException"

\* C3: a request to a path outside the allow-list whose bearer token is
\* expired is rejected by the gate with 401, and with no other outcome.
C3_ExpiredRejected401 ==
    \A r \in Reqs :
        ( /\ GateRan(r)
          /\ Protected(r)
          /\ req[r].cred.present
          /\ CorrectlySigned(req[r].cred.credentials)
          /\ ExpiredAt(req[r].cred.credentials, StartClock) )
        => Rejected401(r)

\* C4: a request to a path outside the allow-list that presents no bearer
\* credential is rejected with 401, without any call of the Token Verifier
\* and without any identity attached to the request.
C4_NoCredentialRejected ==
    \A r \in Reqs :
        (GateRan(r) /\ Protected(r) /\ ~req[r].cred.present)
        => /\ Rejected401(r)
           /\ req[r].verifier_calls = 0
           /\ ~req[r].state.set

C4_Witness ==
    \E r \in Reqs :
        /\ GateRan(r) /\ Protected(r) /\ ~req[r].cred.present
        /\ req[r].status = 401

\* C5: a request whose path is one of the allow-listed paths is accepted by
\* the gate whatever its credential is, with no token decoded and no
\* identity attached.
C5_AllowListAccepted ==
    \A r \in Reqs :
        (GateRan(r) /\ ~Protected(r))
        => /\ req[r].gate = "accepted"
           /\ req[r].status = 0
           /\ req[r].verifier_calls = 0
           /\ ~req[r].state.set

C5_Witness ==
    \E r, q \in Reqs :
        /\ GateRan(r) /\ ~Protected(r) /\ ~req[r].cred.present
        /\ req[r].gate = "accepted"
        /\ GateRan(q) /\ ~Protected(q) /\ req[q].cred.present
        /\ ~CorrectlySigned(req[q].cred.credentials)
        /\ req[q].gate = "accepted"

\* C6: the gate runs exactly once per request and completes before the
\* database session of get_db is opened and before the route handler starts;
\* when the gate does not accept, neither of them happens.
C6_GateBeforeHandler ==
    \A r \in Reqs :
        /\ req[r].gate_runs <= 1
        /\ (req[r].db # "none" \/ req[r].handler_ran \/ req[r].pc = "endpoint")
           => (req[r].gate_runs = 1 /\ req[r].gate = "accepted")
        /\ req[r].gate = "rejected"
           => (req[r].db = "none" /\ ~req[r].handler_ran /\ req[r].pc = "done")

C6_Witness ==
    \E r, q \in Reqs :
        /\ req[r].handler_ran /\ req[r].db = "closed" /\ req[r].gate = "accepted"
        /\ req[q].gate = "rejected" /\ req[q].pc = "done" /\ req[q].db = "none"

\* C7: under any interleaving of requests, the handler of a path outside the
\* allow-list runs with exactly one identity, the one decoded from the
\* verified token of its own request: it is written once and no request
\* carries an identity that its own gate did not resolve.
C7_OneIdentityPerRequest ==
    \A r \in Reqs :
        /\ req[r].state.writes <= 1
        /\ req[r].state.set
           => /\ Protected(r)
              /\ req[r].gate = "accepted"
              /\ req[r].cred.present
              /\ CorrectlySigned(req[r].cred.credentials)
              /\ req[r].state.user_id = req[r].cred.credentials.sub
              /\ req[r].state.user = req[r].cred.credentials.user_metadata
        /\ (Protected(r) /\ (req[r].pc = "endpoint" \/ req[r].handler_ran))
           => (req[r].state.set /\ req[r].state.writes = 1)
        /\ req[r].handler_ran
           => req[r].seen_user_id = req[r].cred.credentials.sub

C7_Witness ==
    \E r, q \in Reqs :
        /\ req[r].handler_ran /\ req[r].seen_user_id = "u1"
        /\ req[q].handler_ran /\ req[q].seen_user_id = "u2"

-----------------------------------------------------------------------------
(* Properties of the Credential Cache (SpecCache) *)

\* C8: every successful return of a getter is the same instance, and every
\* SupabaseDep built by get_supbase holds that data client in all its members.
C8_SameInstance ==
    /\ \A g \in Getters : Cardinality(stats[g].returned) <= 1
    /\ \A d \in deps :
          /\ d.auth = d.client /\ d.db = d.client /\ d.storage = d.client
          /\ stats["get_supabase_client"].returned = {d.client}

C8_Witness ==
    /\ \A g \in Getters : stats[g].calls >= 2 /\ stats[g].returned # {}
    /\ deps # {}
    /\ last.ok /\ ~last.ran_body

\* C9: for each getter, if the endpoint URL or the API key is empty at the
\* first call, the call fails with the configuration error and no client is
\* returned or cached.
C9_EmptyConfigFails ==
    ( /\ last.op # "none"
      /\ stats[last.getter].calls = 1
      /\ supabase_url = "" \/ supabase_key = "" )
    => /\ ~last.ok
       /\ last.exc = "SupabaseError"
       /\ last.ret = NoClient
       /\ cache[last.getter] = NoClient

C11_StartsWithoutConfig ==
    (proc # "loading" /\ (supabase_url = "" \/ supabase_key = ""))
    => proc = "running"

-----------------------------------------------------------------------------
(* Properties of the Data Access Layer and the Storage Access Layer (SpecLayer) *)

HasCall(query, c) == \E i \in 1..Len(query) : query[i] = c

HasLimit(query) == \E i \in 1..Len(query) : query[i].m = "limit"

\* C12: select with an offset and no limit sends the inclusive range
\* [offset, offset + 9] and no limit clause; with a limit as well, the range
\* is [offset, offset + limit - 1].
C12_OffsetRange ==
    (call.op = "select" /\ call.args.offset # NoneInt)
    => IF call.args.limit = NoneInt
       THEN /\ HasCall(call.query, Q_range(call.args.offset,
                                           call.args.offset + DefaultPageSize - 1))
            /\ ~HasLimit(call.query)
       ELSE HasCall(call.query, Q_range(call.args.offset,
                                        call.args.offset + call.args.limit - 1))

\* C13: every select with an offset (0 included) and no limit sends a query
\* bounded by the default page size, never an unbounded one.
C13_OffsetAlwaysBounded ==
    (call.op = "select" /\ call.args.offset # NoneInt /\ call.args.limit = NoneInt)
    => \E i \in 1..Len(call.query) :
          /\ call.query[i].m = "range"
          /\ call.query[i].lo = call.args.offset
          /\ call.query[i].hi - call.query[i].lo + 1 = DefaultPageSize

\* C14: check_user_exists never raises: it issues one select on users with
\* the filter id = user_id and limit 1, returns true iff that select returned
\* at least one row, and returns false whenever the select failed.
C14_CheckUserExists ==
    call.op = "check_user_exists"
    => /\ call.exc = "None"
       /\ call.requests = 1
       /\ call.table = "users"
       /\ call.query = <<Q_select("*"), Q_eq("id", call.args.user_id), Q_limit(1)>>
       /\ call.result <=> (call.backend = "ok" /\ call.rows >= 1)

C14_Witness ==
    /\ call.op = "check_user_exists"
    /\ call.backend = "Exception"
    /\ ~call.result

IsEq(c) == c.m = "eq"

EqCalls(query) == SelectSeq(query, IsEq)

\* C18: select, update and delete turn a filter mapping into exactly one
\* equality predicate per entry, in the mapping's iteration order; select
\* with no or empty filters adds no predicate.
C18_OnePredicatePerFilter ==
    (call.op \in {"select", "update", "delete"} /\ call.requests = 1)
    => LET eqs == EqCalls(call.query)
           items == call.args.filters.items
       IN  /\ Len(eqs) = Len(items)
           /\ \A i \in 1..Len(items) : eqs[i].k = items[i].k /\ eqs[i].v = items[i].v
           /\ ~call.args.filters.given => eqs = <<>>

C18_Witness ==
    /\ call.op = "delete"
    /\ call.args.filters.items = <<Item("name", "bob"), Item("id", "42")>>
    /\ EqCalls(call.query) = <<Q_eq("name", "bob"), Q_eq("id", "42")>>

DataOps == {"select", "insert", "update", "delete", "upsert"}

StorageOps ==
    {"upload_file", "download_file", "delete_file", "list_files", "upload_file_to_s3"}

\* C15, as stated: every call of a Data Access Layer or Storage Access Layer
\* operation issues exactly one request to the backend, whether it succeeds
\* or fails.
C15_ExactlyOneRequest ==
    call.op \in DataOps \cup StorageOps => call.requests = 1

\* C15, amended: every call issues at most one request and none is retried;
\* a call that succeeds, and every call of an operation that cannot fail
\* ahead of its backend call, issued exactly one; a call issued none only
\* when it failed on the client side before reaching the backend.
C15_AtMostOneRequest ==
    call.op \in DataOps \cup StorageOps
    => /\ call.requests <= 1
       /\ call.ok => call.requests = 1
       /\ call.op \notin {"insert", "update", "upsert", "upload_file_to_s3"}
          => call.requests = 1
       /\ call.requests = 0
          => (~call.ok /\ call.backend \in {"ValueError", "AttributeError"})
       /\ call.requests = 1
          => call.backend \notin {"ValueError", "AttributeError"}

C15_Witness ==
    /\ call.op = "upload_file_to_s3"
    /\ call.requests = 0
    /\ stats["get_s3_client"].attempts >= 1
    /\ cache["get_s3_client"] = NoClient

\* C16: no backend exception escapes the layers: a failure in a Data Access
\* Layer operation reaches the caller as SupabaseDBError, naming the
\* collection for an API error and generic otherwise; a failure in a Storage
\* Access Layer operation, a failure to construct the S3 client included,
\* reaches the caller as SupabaseStorageError.
C16_ErrorsTranslated ==
    /\ call.exc \in {"None", "SupabaseDBError", "SupabaseStorageError"}
    /\ (call.op \in DataOps /\ ~call.ok)
       => /\ call.exc = "SupabaseDBError"
          /\ call.backend = "APIError"
             => (call.msg_table = call.table /\ call.msg # "Unexpected error")
          /\ call.backend # "APIError"
             => (call.msg_table = "None" /\ call.msg = "Unexpected error")
    /\ (call.op \in StorageOps \cup {"get_public_url"} /\ ~call.ok)
       => call.exc = "SupabaseStorageError"

C16_Witness ==
    /\ call.op = "upload_file_to_s3"
    /\ call.backend = "ValueError"
    /\ call.exc = "SupabaseStorageError"
    /\ last.getter = "get_s3_client" /\ ~last.ok

\* C20: list_files sends a limit or an offset option only when the caller
\* gave it: a call that omits both sends no options, no zero-valued option
\* is ever sent, and a call with limit n sends limit n, so that at most n
\* entries come back.
C20_ListOptions ==
    call.op = "list_files"
    => /\ call.args.option_limit # NoneInt => call.args.limit # NoneInt
       /\ call.args.option_offset # NoneInt => call.args.offset # NoneInt
       /\ (call.args.limit = NoneInt /\ call.args.offset = NoneInt) => ~call.args.options
       /\ call.args.option_limit # 0 /\ call.args.option_offset # 0
       /\ call.args.limit # NoneInt
          => /\ call.args.option_limit = call.args.limit
             /\ call.ok => call.rows <= call.args.limit

\* C17: an unexpected exception raised while a route handler runs is caught
\* and reported as HTTP 500 with a message that carries no detail of the
\* exception.
C17_GenericServerError ==
    \A r \in Reqs :
        (req[r].handler_ran /\ req[r].cause # "None")
        => (req[r].status = 500 /\ req[r].detail = "None")

IsDigit(c) == c \in {"0", "1", "2", "3", "4", "5", "6", "7", "8", "9"}

IsHex(c) == IsDigit(c) \/ c \in {"a", "b", "c", "d", "e", "f"}

\* C21: generate_filename returns a timestamp (8 digits, underscore, 6
\* digits), an underscore, 8 hex characters and then exactly the extension of
\* the original file name: the result has that extension when there is one
\* and no extension when the original has none.
C21_FilenameForm ==
    call.op = "generate_filename" =>
        LET f == call.filename
            ext == suffix(call.original)
        IN  /\ Len(f) = 24 + Len(ext)
            /\ \A i \in 1..8 : IsDigit(f[i])
            /\ f[9] = "_"
            /\ \A i \in 10..15 : IsDigit(f[i])
            /\ f[16] = "_"
            /\ \A i \in 17..24 : IsHex(f[i])
            /\ SubSeq(f, 25, Len(f)) = ext
            /\ suffix(f) = ext

C21_Witness ==
    /\ call.op = "generate_filename"
    /\ Len(suffix(call.original)) > 0
    /\ \E i \in 1..Len(call.original) : call.original[i] = "/"
    /\ suffix(call.filename) = suffix(call.original)

-----------------------------------------------------------------------------
(* Properties of POST /api/user/add_info (SpecProfile) *)

\* C22: add_user_info creates the profile under the authenticated subject of
\* the request: whatever id the body carries, the id of the profile passed to
\* create_user_profile is the subject id the gate attached to the request, and
\* when that subject id is missing or empty the handler answers 401 and
\* creates no profile.
C22_ProfileUnderSubject ==
    \A r \in Reqs :
        (req[r].path = "/api/user/add_info" /\ req[r].handler_ran) =>
            /\ req[r].state.set
            /\ req[r].cred.present
            /\ req[r].state.user_id = req[r].cred.credentials.sub
            /\ IF NotUserId(req[r].state.user_id)
               THEN req[r].status = 401 /\ req[r].creates = 0
               ELSE req[r].creates = 1 /\ req[r].created_id = req[r].state.user_id

C22_Witness ==
    \E r \in Reqs :
        /\ req[r].path = "/api/user/add_info"
        /\ req[r].handler_ran
        /\ req[r].body_id # req[r].state.user_id
        /\ req[r].creates = 1
        /\ req[r].created_id = req[r].state.user_id
        /\ req[r].status = 200

====
